---- MODULE Spec2Model ----
(***************************************************************************)
(* Model of kats/models/holtwinters.py: the HoltWintersParams validation   *)
(* and the HoltWintersModel construct / fit / predict / plot lifecycle.    *)
(*                                                                         *)
(* Conventions                                                             *)
(*   - A Python Optional is a sequence: None is <<>> and a present value x *)
(*     is <<x>>.  The same encoding is used for an absent keyword.         *)
(*   - Timestamps are day numbers; day 0 is a Monday, so t % 7 is the      *)
(*     weekday (0 = Monday ... 5 = Saturday, 6 = Sunday).                  *)
(*   - alpha and the percentages are integers in percent; the confidence   *)
(*     level 1 - alpha is 100 - alpha.                                     *)
(*   - The numbers produced by the exponential smoothing solver and by the *)
(*     confidence interval estimator are symbolic terms naming the inputs  *)
(*     they are computed from (a deterministic black box).                 *)
(***************************************************************************)
EXTENDS Integers, Sequences, FiniteSets, TLC

\* ------------------------------------------------------------------ bounds
\* Largest number of forecast periods requested in one predict call.
MaxSteps == 2
\* Largest number of fit calls that complete in one behaviour.
MaxFits == 2
\* Longest daily series in the pool of input series.
MaxLen == 5

\* ---------------------------------------------------------------- optionals
None == <<>>
Some(x) == <<x>>
Get(o) == o[1]

\* ------------------------------------------------------------------- errors
NoErr == <<>>
ErrTrend == <<"ValueError", "trend parameter is not valid!">>
ErrSeasonal == <<"ValueError", "seasonal parameter is not valid!">>
ErrUnivariate(type) == <<"ValueError", "Only support univariate time series, but get", type>>
ErrFitFirst == <<"ValueError", "Call fit() before predict()">>
\* Errors raised inside the collaborators and propagated unchanged.
ErrSolver == <<"SolverError", "raised by the exponential smoothing solver">>
ErrEci == <<"EciError", "raised by the empirical confidence interval estimator">>
ErrInferFreq == <<"ValueError", "Need at least 3 dates to infer frequency">>
ErrDateRange == <<"ValueError", "Of the four parameters: start, end, periods, and freq, exactly three must be specified">>
ErrFrameLength == <<"ValueError", "array length does not match index length">>

\* --------------------------------------------------- HoltWintersParams
\* The values validate_params accepts for trend and for seasonal.
AllowedValues == {"add", "mul", "additive", "multiplicative", "None"}

\* The message validate_params raises, NoErr when it returns.
ValidateSeasonalFirst(trend, seasonal) ==
    IF seasonal \notin AllowedValues THEN ErrSeasonal
    ELSE IF trend \notin AllowedValues THEN ErrTrend
    ELSE NoErr
ValidateParams(trend, seasonal) ==
    IF trend \notin AllowedValues THEN ErrTrend
    ELSE IF seasonal \notin AllowedValues THEN ErrSeasonal
    ELSE NoErr

MkParams(trend, damped, seasonal, seasonal_periods) ==
    [trend |-> trend, damped |-> damped, seasonal |-> seasonal,
     seasonal_periods |-> seasonal_periods]

\* Argument values offered to the HoltWintersParams constructor.
TrendArgs == AllowedValues \cup {"invalid"}
SeasonalArgs == AllowedValues \cup {"invalid"}
DampedArgs == BOOLEAN
PeriodArgs == {None, Some(4)}

\* Validated parameter objects a model is constructed with.
ParamsPool == { MkParams("mul", TRUE, "add", Some(4)) }

\* ------------------------------------------------------------ input series
Weekday(t) == t % 7
DailySeries(start, n) == [i \in 1..n |-> start + i - 1]

MkData(shape, time) == [shape |-> shape, time |-> time]

\* The TimeSeriesData objects offered to the HoltWintersModel constructor:
\* two daily series starting on a Tuesday (one of 2 observations, too short
\* for pd.infer_freq, and one of MaxLen, which ends on a weekend), a
\* business-day series across a weekend, an irregular series, and a
\* two-column table.
DataPool ==
    { MkData("Series", DailySeries(1, n)) : n \in {2, MaxLen} }
    \cup { MkData("Series", <<3, 4, 7, 8>>),
           MkData("Series", <<0, 1, 3>>),
           MkData("DataFrame", <<0, 1, 2>>) }

VARIABLES
    params,           \* the HoltWintersParams object, None before it is built
    data,             \* self.data of the HoltWintersModel, None before it is built
    model,            \* self.model: the fitted handle
    freq,             \* self.freq
    dates,            \* self.dates
    include_history,  \* self.include_history
    alpha,            \* self.alpha
    y_fcst,           \* self.y_fcst
    fcst_df,          \* self.fcst_df
    eci,              \* the estimator the last predict call constructed
    plotted,          \* the call the last operation made to the plotting collaborator
    ret,              \* what the last call returned
    lastErr,          \* what the last call raised
    lastOp,           \* the last call and its arguments
    fitCount,         \* number of fit calls that completed so far
    usedFit,          \* the fit whose handle the last predict call read, 0 for none
    okArgs            \* the arguments of the last predict call that returned

cache == <<freq, dates, include_history, alpha, y_fcst, fcst_df>>
vars == <<params, data, model, freq, dates, include_history, alpha, y_fcst,
          fcst_df, eci, plotted, ret, lastErr, lastOp, fitCount, usedFit,
          okArgs>>

\* Class attribute defaults of HoltWintersModel and the bookkeeping variables.
Blank ==
    /\ data = None
    /\ model = None
    /\ freq = None
    /\ dates = None
    /\ include_history = FALSE
    /\ alpha = None
    /\ y_fcst = None
    /\ fcst_df = None
    /\ eci = None
    /\ plotted = None
    /\ ret = None
    /\ lastErr = NoErr
    /\ lastOp = [op |-> "start"]
    /\ fitCount = 0
    /\ usedFit = 0
    /\ okArgs = None

\* ---------------------------------------------- HoltWintersParams.__init__
NewParams(trend, damped, seasonal, seasonal_periods) ==
    LET err == ValidateParams(trend, seasonal)
    IN  /\ lastOp' = [op |-> "params", trend |-> trend, damped |-> damped,
                      seasonal |-> seasonal, seasonal_periods |-> seasonal_periods]
        /\ lastErr' = err
        /\ params' = IF err = NoErr
                     THEN Some(MkParams(trend, damped, seasonal, seasonal_periods))
                     ELSE params
        /\ ret' = None
        /\ plotted' = None
        /\ UNCHANGED <<data, model, cache, eci, fitCount, usedFit, okArgs>>

InitParams == params = None /\ Blank

NextParams ==
    \E trend \in TrendArgs, damped \in DampedArgs,
       seasonal \in SeasonalArgs, seasonal_periods \in PeriodArgs :
        NewParams(trend, damped, seasonal, seasonal_periods)

SpecParams == InitParams /\ [][NextParams]_vars

\* -------------------------------------------------------- date arithmetic
\* pandas frequencies: "D" (calendar days) has every day on its grid; "B"
\* (business days) is anchored to Monday .. Friday.
OnGrid(f, t) == IF f = "B" THEN Weekday(t) <= 4 ELSE TRUE

\* The first grid point after t.
NextOnGrid(f, t) ==
    CHOOSE u \in (t + 1)..(t + 7) :
        OnGrid(f, u) /\ \A v \in (t + 1)..(u - 1) : ~OnGrid(f, v)

RollForward(f, t) == IF OnGrid(f, t) THEN t ELSE NextOnGrid(f, t)

RECURSIVE GridFrom(_, _, _)
GridFrom(f, first, periods) ==
    IF periods = 0 THEN <<>>
    ELSE <<first>> \o GridFrom(f, NextOnGrid(f, first), periods - 1)

\* pd.date_range(start=start, periods=periods, freq=f): an anchored
\* frequency moves a start that is off its grid forward to the grid.
DateRange(start, periods, f) == GridFrom(f, RollForward(f, start), periods)

\* dates[dates != last_date]
DropLast(ds, last) == SelectSeq(ds, LAMBDA d : d # last)

\* self.dates as predict computes it.
FutureDates(last, steps, f) == DropLast(DateRange(last, steps + 1, f), last)

SeqMax(s) == CHOOSE x \in {s[i] : i \in 1..Len(s)} : \A j \in 1..Len(s) : s[j] <= x

\* pd.infer_freq on the timestamps of a series of DataPool (spaced by
\* calendar days, by business days, or unevenly): Some(f), None when the
\* spacing fits no frequency; fewer than 3 timestamps raise.
InferFreq(time) ==
    LET n == Len(time)
        steps1 == \A i \in 1..(n - 1) : time[i + 1] = time[i] + 1
        business == /\ \A i \in 1..n : OnGrid("B", time[i])
                    /\ \A i \in 1..(n - 1) : time[i + 1] = NextOnGrid("B", time[i])
    IN  IF n < 3 THEN [err |-> ErrInferFreq, freq |-> None]
        ELSE IF steps1 THEN [err |-> NoErr, freq |-> Some("D")]
        ELSE IF business THEN [err |-> NoErr, freq |-> Some("B")]
        ELSE [err |-> NoErr, freq |-> None]

\* ------------------------------------ the exponential smoothing solver
\* The handle holtwinters.fit() returns: computed from the series and the
\* four configuration fields; id counts the fits completed, this one
\* included.
MkHandle(id, d, p) ==
    [id |-> id, series |-> d, trend |-> p.trend, damped |-> p.damped,
     seasonal |-> p.seasonal, seasonal_periods |-> p.seasonal_periods]

\* The solver's value at zero-indexed observation number i.
SolverValue(h, i) ==
    <<"hw", h.series, h.trend, h.damped, h.seasonal, h.seasonal_periods, i>>

\* model.forecast(steps): observation numbers N .. N + steps - 1.
SolverForecast(h, steps) ==
    [k \in 1..steps |-> SolverValue(h, Len(h.series.time) + k - 1)]

\* model.predict(start, end): observation numbers start .. end, the end
\* included.
SolverPredict(h, start, end) ==
    [k \in 1..(end - start + 1) |-> SolverValue(h, start + k - 1)]

\* What self.model is after a fit call: the new handle when the solver
\* returned, the old one when it raised.
FitStoresOnFailure(ok, old, new) == Some(new)
FitKeepsFirst(ok, old, new) == IF ok /\ old = None THEN Some(new) ELSE old
FitResult(ok, old, new) == IF ok THEN Some(new) ELSE old

\* ------------------------------------------- HoltWintersModel.__init__
\* m.Model.__init__ stores the series and the parameter object.
ModelBaseInit(d, p) == [data |-> Some(d), params |-> Some(p)]

ShapeCheckMissing(d) == NoErr
ShapeCheck(d) == IF d.shape # "Series" THEN ErrUnivariate(d.shape) ELSE NoErr

NewModel(d) ==
    /\ params # None
    /\ data = None
    /\ LET base == ModelBaseInit(d, Get(params))
           err == ShapeCheck(d)
       IN  /\ lastOp' = [op |-> "model", data |-> d]
           /\ lastErr' = err
           \* the object of a constructor that raised is never bound
           /\ data' = IF err = NoErr THEN base.data ELSE data
           /\ params' = IF err = NoErr THEN base.params ELSE params
    /\ ret' = None
    /\ plotted' = None
    /\ UNCHANGED <<model, cache, eci, fitCount, usedFit, okArgs>>

\* ------------------------------------------------ HoltWintersModel.fit
\* ok: whether the solver returned (it raises on its own grounds).
Fit(ok) ==
    /\ data # None
    /\ ok => fitCount < MaxFits
    /\ fitCount' = IF ok THEN fitCount + 1 ELSE fitCount
    /\ model' = FitResult(ok, model, MkHandle(fitCount + 1, Get(data), Get(params)))
    /\ lastOp' = [op |-> "fit"]
    /\ lastErr' = IF ok THEN NoErr ELSE ErrSolver
    /\ ret' = None
    /\ plotted' = None
    /\ UNCHANGED <<params, data, cache, eci, usedFit, okArgs>>

\* -------------------------------------------------------- forecast tables
NaN == <<>>
NaT == <<>>

PointRow(t, v) == [time |-> t, fcst |-> v]

\* pd.DataFrame({"time": self.dates, "fcst": fcst}) for equally long inputs.
PointTable(times, values) ==
    [cols |-> <<"time", "fcst">>,
     rows |-> [i \in 1..Len(values) |-> PointRow(Some(times[i]), values[i])]]

\* pd.DataFrame({"time": self.data.time, "fcst": history_fcst}): two series
\* indexed from 0 are aligned on the union of their indexes, and a row one
\* of them lacks holds NaT or NaN there.
HistoryFrame(time, hist) ==
    LET n == IF Len(time) >= Len(hist) THEN Len(time) ELSE Len(hist)
    IN  [cols |-> <<"time", "fcst">>,
         rows |-> [i \in 1..n |->
                     PointRow(IF i <= Len(time) THEN Some(time[i]) ELSE NaT,
                              IF i <= Len(hist) THEN hist[i] ELSE NaN)]]

Widen(row) ==
    [time |-> row.time, fcst |-> row.fcst,
     fcst_lower |-> IF "fcst_lower" \in DOMAIN row THEN row.fcst_lower ELSE NaN,
     fcst_upper |-> IF "fcst_upper" \in DOMAIN row THEN row.fcst_upper ELSE NaN]

\* pd.concat([a, b]): the rows of a, then those of b, over the union of the
\* columns.
Concat(a, b) ==
    IF a.cols = b.cols
    THEN [cols |-> a.cols, rows |-> a.rows \o b.rows]
    ELSE [cols |-> <<"time", "fcst", "fcst_lower", "fcst_upper">>,
          by |-> b.by,
          rows |-> [i \in 1..Len(a.rows) |-> Widen(a.rows[i])]
                   \o [i \in 1..Len(b.rows) |-> Widen(b.rows[i])]]

Column(t, c) == [i \in 1..Len(t.rows) |-> t.rows[i][c]]

\* --------------------------- the empirical confidence interval estimator
NoKw ==
    [freq |-> None, alpha |-> None, error_methods |-> None,
     train_percentage |-> None, test_percentage |-> None,
     sliding_steps |-> None, multi |-> None]

\* The keyword arguments offered to predict.
KwargsPool ==
    { NoKw,
      [NoKw EXCEPT !.freq = Some("B")],
      [NoKw EXCEPT !.alpha = Some(5)],
      [NoKw EXCEPT !.alpha = Some(20), !.multi = Some(TRUE),
                   !.sliding_steps = Some(2)],
      [NoKw EXCEPT !.alpha = Some(5), !.multi = Some(FALSE),
                   !.freq = Some("B"),
                   !.error_methods = Some(<<"smape">>),
                   !.train_percentage = Some(80),
                   !.test_percentage = Some(20)] }

KwGet(v, default) == IF v # None THEN Get(v) ELSE default

\* The arguments EmpConfidenceInt is constructed with.
EciArgsMultiFromCaller(kw, d, p) ==
    [error_methods |-> KwGet(kw.error_methods, <<"mape">>),
     data |-> d, params |-> p,
     train_percentage |-> KwGet(kw.train_percentage, 70),
     test_percentage |-> KwGet(kw.test_percentage, 10),
     sliding_steps |-> KwGet(kw.sliding_steps, Len(d.time) \div 5),
     model_class |-> "HoltWintersModel",
     confidence_level |-> 100 - Get(kw.alpha),
     multi |-> KwGet(kw.multi, TRUE)]
EciArgsSlidingRoundedUp(kw, d, p) ==
    [error_methods |-> KwGet(kw.error_methods, <<"mape">>),
     data |-> d, params |-> p,
     train_percentage |-> KwGet(kw.train_percentage, 70),
     test_percentage |-> KwGet(kw.test_percentage, 10),
     sliding_steps |-> KwGet(kw.sliding_steps, (Len(d.time) + 4) \div 5),
     model_class |-> "HoltWintersModel",
     confidence_level |-> 100 - Get(kw.alpha),
     multi |-> FALSE]
EciArgs(kw, d, p) ==
    [error_methods |-> KwGet(kw.error_methods, <<"mape">>),
     data |-> d, params |-> p,
     train_percentage |-> KwGet(kw.train_percentage, 70),
     test_percentage |-> KwGet(kw.test_percentage, 10),
     sliding_steps |-> KwGet(kw.sliding_steps, Len(d.time) \div 5),
     model_class |-> "HoltWintersModel",
     confidence_level |-> 100 - Get(kw.alpha),
     multi |-> FALSE]

\* eci.get_eci(steps): `steps` rows of point forecast and bounds for the
\* `steps` periods that follow the last observed timestamp.  The table
\* names the estimator its numbers come from; a number is named by its
\* column and its row.
GetEci(est, steps, last, f) ==
    [cols |-> <<"time", "fcst", "fcst_lower", "fcst_upper">>,
     by |-> est,
     rows |-> [i \in 1..steps |->
                 [time |-> Some(GridFrom(f, NextOnGrid(f, last), steps)[i]),
                  fcst |-> <<"eci", "fcst", i>>,
                  fcst_lower |-> <<"eci", "lower", i>>,
                  fcst_upper |-> <<"eci", "upper", i>>]]]

\* -------------------------------------------- HoltWintersModel.predict
\* self.alpha after the alpha branch of predict.
AlphaNeverCached(old, kw) == old
NewAlpha(old, kw) == IF kw.alpha # None THEN kw.alpha ELSE old

\* The end argument of the in-sample call model.predict(start=0, end=...).
HistoryEnd(time) == Len(time)

\* The fields after a predict call that raised err without assigning any.
Stay(err) ==
    [err |-> err, freq |-> freq, dates |-> dates, ih |-> include_history,
     alpha |-> alpha, y_fcst |-> y_fcst, fcst_df |-> fcst_df, eci |-> None,
     ret |-> None]

\* extOk: whether the delegated call (the solver's forecast, or the
\* estimator) returns.
PredictOutcome(steps, ih, kw, extOk) ==
    LET h == Get(model)
        d == Get(data)
        inferred == InferFreq(d.time)
        f == IF kw.freq # None THEN kw.freq ELSE inferred.freq
        last == SeqMax(d.time)
        ds == FutureDates(last, steps, Get(f))
        est == EciArgs(kw, d, Get(params))
        \* the assignments made before the alpha branch
        set == [Stay(NoErr) EXCEPT !.freq = f, !.dates = Some(ds),
                                   !.ih = ih]
        future == IF kw.alpha # None
                  THEN GetEci(est, steps, last, Get(f))
                  ELSE PointTable(ds, SolverForecast(h, steps))
        table == IF ih
                 THEN Concat(HistoryFrame(d.time,
                                 SolverPredict(h, 0, HistoryEnd(d.time))),
                             future)
                 ELSE future
    IN  IF model = None THEN Stay(ErrFitFirst)
        ELSE IF inferred.err # NoErr THEN Stay(inferred.err)
        ELSE IF f = None THEN [Stay(ErrDateRange) EXCEPT !.freq = f]
        ELSE IF kw.alpha # None
        THEN IF ~extOk
             THEN [set EXCEPT !.err = ErrEci, !.alpha = NewAlpha(alpha, kw),
                              !.eci = Some(est)]
             ELSE [set EXCEPT !.alpha = NewAlpha(alpha, kw), !.eci = Some(est),
                              !.y_fcst = Some(Column(future, "fcst")),
                              !.fcst_df = Some(table), !.ret = Some(table)]
        ELSE IF ~extOk THEN [set EXCEPT !.err = ErrSolver]
        ELSE IF Len(ds) # steps
        THEN [set EXCEPT !.err = ErrFrameLength,
                         !.y_fcst = Some(SolverForecast(h, steps))]
        ELSE [set EXCEPT !.y_fcst = Some(SolverForecast(h, steps)),
                         !.fcst_df = Some(table), !.ret = Some(table)]

Predict(steps, ih, kw, extOk) ==
    /\ data # None
    /\ \E r \in {PredictOutcome(steps, ih, kw, extOk)} :
           /\ freq' = r.freq
           /\ dates' = r.dates
           /\ include_history' = r.ih
           /\ alpha' = r.alpha
           /\ y_fcst' = r.y_fcst
           /\ fcst_df' = r.fcst_df
           /\ eci' = r.eci
           /\ ret' = r.ret
           /\ lastErr' = r.err
           /\ okArgs' = IF r.err = NoErr
                        THEN Some([steps |-> steps, include_history |-> ih,
                                   kwargs |-> kw])
                        ELSE okArgs
    /\ usedFit' = IF model = None THEN 0 ELSE Get(model).id
    /\ lastOp' = [op |-> "predict", steps |-> steps, include_history |-> ih,
                  kwargs |-> kw]
    /\ plotted' = None
    /\ UNCHANGED <<params, data, model, fitCount>>

\* ----------------------------------------------- HoltWintersModel.plot
Plot ==
    /\ data # None
    /\ plotted' = Some([data |-> data, fcst_df |-> fcst_df,
                        include_history |-> include_history])
    /\ lastOp' = [op |-> "plot"]
    /\ lastErr' = NoErr
    /\ ret' = None
    /\ UNCHANGED <<params, data, model, cache, eci, fitCount, usedFit, okArgs>>

\* ------------------------------------------------------- specification
Init == params \in {Some(p) : p \in ParamsPool} /\ Blank

Next ==
    \/ \E d \in DataPool : NewModel(d)
    \/ \E ok \in BOOLEAN : Fit(ok)
    \/ \E steps \in {1, MaxSteps}, ih \in BOOLEAN, kw \in KwargsPool,
          extOk \in BOOLEAN : Predict(steps, ih, kw, extOk)
    \/ Plot

Spec == Init /\ [][Next]_vars

\* =============================================================== claims
IsPredict == lastOp.op = "predict"
PredictOk == IsPredict /\ lastErr = NoErr
\* The last predict call passed the fit check and built self.dates.
BuiltDates == IsPredict /\ lastErr \notin {ErrFitFirst, ErrInferFreq, ErrDateRange}
LastObserved == SeqMax(Get(data).time)
SeriesLength == Len(Get(data).time)

\* C1: predict returns only after a fit call completed; while none has,
\* predict raises 'Call fit() before predict()', returns nothing and leaves
\* freq, dates, include_history, alpha, y_fcst and fcst_df as they were.
C1_FitBeforePredict ==
    [][ lastOp'.op = "predict" =>
          /\ lastErr' = NoErr => fitCount > 0
          /\ fitCount = 0 =>
               /\ lastErr' = ErrFitFirst
               /\ ret' = None
               /\ UNCHANGED cache ]_vars

C1_Witness == IsPredict /\ fitCount = 0 /\ lastErr = ErrFitFirst

\* C2: HoltWintersParams is constructed exactly when trend and seasonal are
\* each one of the five allowed values, whatever damped and seasonal_periods
\* are; otherwise a ValueError is raised, the one for trend when both are
\* invalid.
C2_ParamsValidation ==
    lastOp.op = "params" =>
        LET five == {"add", "mul", "additive", "multiplicative", "None"}
            trendOk == lastOp.trend \in five
            seasonalOk == lastOp.seasonal \in five
        IN  /\ lastErr = NoErr <=> (trendOk /\ seasonalOk)
            /\ lastErr = NoErr =>
                 params = Some(MkParams(lastOp.trend, lastOp.damped,
                                        lastOp.seasonal, lastOp.seasonal_periods))
            /\ ~trendOk => lastErr = ErrTrend
            /\ (trendOk /\ ~seasonalOk) => lastErr = ErrSeasonal

C2_Witness ==
    /\ lastOp.op = "params"
    /\ lastOp.trend = "invalid"
    /\ lastOp.seasonal = "invalid"
    /\ lastErr = ErrTrend

\* C3 as claimed: a multi-column series makes the constructor raise an error
\* naming the shape received, of a kind other than the one parameter
\* validation raises; a univariate series is stored with the parameters and
\* no fitted handle.
C3_DistinctErrorKind ==
    lastOp.op = "model" =>
        IF lastOp.data.shape # "Series"
        THEN /\ lastErr # NoErr
             /\ lastErr[Len(lastErr)] = lastOp.data.shape
             /\ lastErr[1] \notin {ErrTrend[1], ErrSeasonal[1]}
        ELSE lastErr = NoErr /\ data = Some(lastOp.data) /\ model = None

\* C3 as amended: the error is a ValueError, the kind parameter validation
\* raises too, told apart only by its message, which names the type
\* received; no object is created.  A univariate series is stored with the
\* parameters and no fitted handle.
C3_Construction ==
    lastOp.op = "model" =>
        IF lastOp.data.shape # "Series"
        THEN /\ lastErr # NoErr
             /\ lastErr[1] = "ValueError"
             /\ lastErr[Len(lastErr)] = lastOp.data.shape
             /\ lastErr \notin {ErrTrend, ErrSeasonal}
             /\ data = None
        ELSE /\ lastErr = NoErr
             /\ data = Some(lastOp.data)
             /\ params \in {Some(p) : p \in ParamsPool}
             /\ model = None

C3_Witness ==
    lastOp.op = "model" /\ lastOp.data.shape = "DataFrame" /\ lastErr # NoErr

\* C4: a predict call without alpha that passed the fit check and has a
\* frequency builds exactly `steps` timestamps, all later than the last
\* observed one and increasing, and (the solver returning) returns a table
\* of `steps` rows pairing each with a forecast value.
C4_FutureDates ==
    (BuiltDates /\ lastOp.kwargs.alpha = None /\ lastErr # ErrSolver) =>
        LET ds == Get(dates)
        IN  /\ Len(ds) = lastOp.steps
            /\ \A i \in 1..Len(ds) : ds[i] > LastObserved
            /\ \A i \in 1..(Len(ds) - 1) : ds[i] < ds[i + 1]
            /\ lastErr = NoErr
            /\ ~lastOp.include_history =>
                 /\ Len(Get(ret).rows) = lastOp.steps
                 /\ \A i \in 1..Len(Get(ret).rows) :
                        /\ Get(ret).rows[i].time = Some(ds[i])
                        /\ Get(ret).rows[i].fcst # NaN

\* C5: predict(steps, include_history = true) returns N + steps rows, the
\* first N carrying the N observation timestamps in order with the solver's
\* in-sample values, then the future rows; without include_history it
\* returns the `steps` future rows.
C5_HistoryRows ==
    PredictOk =>
        LET rows == Get(ret).rows
            time == Get(data).time
        IN  IF lastOp.include_history
            THEN /\ Len(rows) = SeriesLength + lastOp.steps
                 /\ \A i \in 1..SeriesLength : rows[i].time = Some(time[i])
            ELSE Len(rows) = lastOp.steps

\* C6: a fit that completes stores a handle made from the stored series and
\* the four configuration fields; a predict that returns read the handle of
\* the latest completed fit; and a predict called with the arguments of the
\* last predict that returned returns the table that one returned, however
\* many fits came between.
C6_RefitDeterministic ==
    [][ /\ (lastOp'.op = "fit" /\ lastErr' = NoErr) =>
              /\ model' # None
              /\ Get(model').id = fitCount'
              /\ Get(model').series = Get(data)
              /\ Get(model').trend = Get(params).trend
              /\ Get(model').damped = Get(params).damped
              /\ Get(model').seasonal = Get(params).seasonal
              /\ Get(model').seasonal_periods = Get(params).seasonal_periods
        /\ (lastOp'.op = "predict" /\ lastErr' = NoErr) =>
              /\ usedFit' = fitCount
              /\ Get(model).id = fitCount
              /\ okArgs = okArgs' => ret' = fcst_df ]_vars

C6_Witness == PredictOk /\ fitCount >= 2 /\ usedFit = fitCount

\* C7: the estimator a predict call with alpha constructs gets multi = false
\* and confidence level 1 - alpha, whatever the caller's multi keyword.
C7_MultiForcedFalse ==
    (BuiltDates /\ lastOp.kwargs.alpha # None) =>
        /\ eci # None
        /\ Get(eci).multi = FALSE
        /\ Get(eci).confidence_level = 100 - Get(lastOp.kwargs.alpha)

C7_Witness ==
    IsPredict /\ eci # None /\ lastOp.kwargs.multi = Some(TRUE)

\* C8: the estimator gets sliding_steps = floor(series length / 5) unless
\* the caller supplies it, and error_methods, train_percentage and
\* test_percentage as supplied, ["mape"], 70 and 10 when they are absent.
C8_EstimatorDefaults ==
    (BuiltDates /\ lastOp.kwargs.alpha # None) =>
        LET kw == lastOp.kwargs
            est == Get(eci)
            floor5 == CHOOSE q \in 0..SeriesLength :
                          5 * q <= SeriesLength /\ SeriesLength < 5 * (q + 1)
        IN  /\ eci # None
            /\ est.sliding_steps =
                 (IF kw.sliding_steps = None THEN floor5 ELSE Get(kw.sliding_steps))
            /\ est.error_methods =
                 (IF kw.error_methods = None THEN <<"mape">> ELSE Get(kw.error_methods))
            /\ est.train_percentage =
                 (IF kw.train_percentage = None THEN 70 ELSE Get(kw.train_percentage))
            /\ est.test_percentage =
                 (IF kw.test_percentage = None THEN 10 ELSE Get(kw.test_percentage))

C8_Witness ==
    /\ IsPredict
    /\ eci # None
    /\ lastOp.kwargs.sliding_steps = None
    /\ SeriesLength >= 5
    /\ Get(eci).sliding_steps = 1

\* C9 as claimed: after a predict that returned, every cached field is the
\* one that call determines; the cached alpha is that call's alpha, none
\* when it gave none.
C9_AlphaReset ==
    PredictOk =>
        /\ include_history = lastOp.include_history
        /\ fcst_df = ret
        /\ dates = Some(FutureDates(LastObserved, lastOp.steps, Get(freq)))
        /\ alpha = lastOp.kwargs.alpha

\* C9 as amended: a predict that returns leaves the frequency, the date
\* range, the include_history flag, the forecast values and the table that
\* this call determines; alpha is this call's alpha when it gave one, and
\* otherwise what was cached before the call.
C9_CacheOverwritten ==
    [][ (lastOp'.op = "predict" /\ lastErr' = NoErr) =>
          LET kw == lastOp'.kwargs
              n == lastOp'.steps
              rows == Get(ret').rows
          IN  /\ freq' = (IF kw.freq # None THEN kw.freq
                          ELSE InferFreq(Get(data).time).freq)
              /\ dates' = Some(FutureDates(LastObserved, n, Get(freq')))
              /\ include_history' = lastOp'.include_history
              /\ ret' # None
              /\ fcst_df' = ret'
              /\ y_fcst' = Some([i \in 1..n |-> rows[Len(rows) - n + i].fcst])
              /\ alpha' = (IF kw.alpha # None THEN kw.alpha ELSE alpha) ]_vars

C9_Witness == PredictOk /\ lastOp.kwargs.alpha = None /\ alpha # None

\* C10: a predict call in which the solver or the estimator raises leaves
\* every cached field as it was, so that plot renders the table, the
\* include_history flag and the date range of one and the same predict
\* call, the last that returned.
C10_FailedPredictKeepsCache ==
    [][ /\ (lastOp'.op = "predict" /\ lastErr' \in {ErrSolver, ErrEci}) =>
              UNCHANGED cache
        /\ (lastOp'.op = "plot" /\ okArgs # None) =>
              /\ Get(plotted').fcst_df = fcst_df
              /\ Get(plotted').include_history = Get(okArgs).include_history
              /\ dates =
                   Some(FutureDates(LastObserved, Get(okArgs).steps,
                                    Get(IF Get(okArgs).kwargs.freq # None
                                        THEN Get(okArgs).kwargs.freq
                                        ELSE InferFreq(Get(data).time).freq))) ]_vars
====
